---- MODULE Spec2Model ----
(***************************************************************************)
(* Token Factory bindings (src/src/lib.rs): the message and query schema,  *)
(* the six message constructors of CreateTokenFactoryMsg, the five query   *)
(* helpers of TokenFactoryQuerier, and the JSON encoding the cw_serde      *)
(* attribute derives for every type of the schema.                         *)
(*                                                                         *)
(* Strings are sequences of characters, so that the decimal text of an     *)
(* amount can be formatted and parsed digit by digit.  A Uint256 is 16     *)
(* limbs of 16 bits, least significant first.  A JSON document is a tree:  *)
(* null, bool, number, string, array, or object (an ordered sequence of    *)
(* key/value pairs, as on the wire: a key may be repeated or unknown).     *)
(***************************************************************************)
EXTENDS Integers, Sequences, FiniteSets, TLC

VARIABLES
    call,     \* <<>> or <<c>>: the helper called last, c = [fn, args]
    xchg,     \* what the host transport saw during that call: [sent, got]
    ret,      \* <<>> or <<r>>: the StdResult the helper returned
    nreq,     \* number of requests handed to the host transport so far
    probe,    \* <<>> or <<k>>: a call key [call, answer] under observation
    seen,     \* <<>> or <<o>>: the first outcome [sent, ret] observed for the probe
    subject,  \* <<>> or <<s>>: the value under (de)serialization, s = [ty, v]
    wire,     \* <<>> or <<j>>: a JSON document
    decoded,  \* <<>> or <<r>>: the result of deserializing wire as subject's type
    rewire    \* <<>> or <<j>>: the decoded value serialized again

vars == <<call, xchg, ret, nreq, probe, seen, subject, wire, decoded, rewire>>

-----------------------------------------------------------------------------
(* Strings used as inputs. *)
\* the empty string
s_empty == <<>>
s_foo == <<"f", "o", "o">>
\* 45 characters: one more than the host's subdenom limit of 44 (src/src/lib.rs:9)
s_long == <<"a", "a", "a", "a", "a", "a", "a", "a", "a", "a", "a", "a", "a", "a", "a", "a", "a", "a", "a", "a", "a", "a", "a", "a", "a", "a", "a", "a", "a", "a", "a", "a", "a", "a", "a", "a", "a", "a", "a", "a", "a", "a", "a", "a", "a">>
\* characters outside [0-9a-zA-Z./] (src/src/lib.rs:9)
s_badchars == <<"f", " ", "o", "$">>
s_denom == <<"f", "a", "c", "t", "o", "r", "y", "/", "c", "o", "n", "t", "r", "a", "c", "t", "A", "d", "d", "r", "1", "/", "f", "o", "o">>
s_contractAddr1 == <<"c", "o", "n", "t", "r", "a", "c", "t", "A", "d", "d", "r", "1">>
s_recvAddr1 == <<"r", "e", "c", "v", "A", "d", "d", "r", "1">>
s_uatom == <<"u", "a", "t", "o", "m">>
s_atom == <<"a", "t", "o", "m">>
d_zero == <<"0">>
d_seven == <<"7">>
\* 10^24
d_1e24 == <<"1", "0", "0", "0", "0", "0", "0", "0", "0", "0", "0", "0", "0", "0", "0", "0", "0", "0", "0", "0", "0", "0", "0", "0", "0">>
\* 2^64
d_2p64 == <<"1", "8", "4", "4", "6", "7", "4", "4", "0", "7", "3", "7", "0", "9", "5", "5", "1", "6", "1", "6">>
\* 2^128
d_2p128 == <<"3", "4", "0", "2", "8", "2", "3", "6", "6", "9", "2", "0", "9", "3", "8", "4", "6", "3", "4", "6", "3", "3", "7", "4", "6", "0", "7", "4", "3", "1", "7", "6", "8", "2", "1", "1", "4", "5", "6">>
\* 2^256 - 1
d_max == <<"1", "1", "5", "7", "9", "2", "0", "8", "9", "2", "3", "7", "3", "1", "6", "1", "9", "5", "4", "2", "3", "5", "7", "0", "9", "8", "5", "0", "0", "8", "6", "8", "7", "9", "0", "7", "8", "5", "3", "2", "6", "9", "9", "8", "4", "6", "6", "5", "6", "4", "0", "5", "6", "4", "0", "3", "9", "4", "5", "7", "5", "8", "4", "0", "0", "7", "9", "1", "3", "1", "2", "9", "6", "3", "9", "9", "3", "5">>
\* 2^256
d_2p256 == <<"1", "1", "5", "7", "9", "2", "0", "8", "9", "2", "3", "7", "3", "1", "6", "1", "9", "5", "4", "2", "3", "5", "7", "0", "9", "8", "5", "0", "0", "8", "6", "8", "7", "9", "0", "7", "8", "5", "3", "2", "6", "9", "9", "8", "4", "6", "6", "5", "6", "4", "0", "5", "6", "4", "0", "3", "9", "4", "5", "7", "5", "8", "4", "0", "0", "7", "9", "1", "3", "1", "2", "9", "6", "3", "9", "9", "3", "6">>
\* 2^256 + 2^64
d_2p256p64 == <<"1", "1", "5", "7", "9", "2", "0", "8", "9", "2", "3", "7", "3", "1", "6", "1", "9", "5", "4", "2", "3", "5", "7", "0", "9", "8", "5", "0", "0", "8", "6", "8", "7", "9", "0", "7", "8", "5", "3", "2", "6", "9", "9", "8", "4", "6", "6", "5", "6", "4", "0", "5", "6", "4", "0", "3", "9", "4", "7", "6", "0", "3", "0", "7", "5", "1", "9", "8", "6", "8", "3", "9", "1", "9", "1", "5", "5", "2">>
d_neg1 == <<"-", "1">>
d_lead0 == <<"0", "0", "7">>

(* Uint256 values used as inputs, as limbs. *)
\* 0
u_zero == <<0, 0, 0, 0, 0, 0, 0, 0, 0, 0, 0, 0, 0, 0, 0, 0>>
\* 7
u_seven == <<7, 0, 0, 0, 0, 0, 0, 0, 0, 0, 0, 0, 0, 0, 0, 0>>
\* 10^24
u_1e24 == <<0, 41216, 52461, 7118, 54210, 0, 0, 0, 0, 0, 0, 0, 0, 0, 0, 0>>
\* 2^64
u_2p64 == <<0, 0, 0, 0, 1, 0, 0, 0, 0, 0, 0, 0, 0, 0, 0, 0>>
\* 2^128
u_2p128 == <<0, 0, 0, 0, 0, 0, 0, 0, 1, 0, 0, 0, 0, 0, 0, 0>>
\* 2^256 - 1
u_max == <<65535, 65535, 65535, 65535, 65535, 65535, 65535, 65535, 65535, 65535, 65535, 65535, 65535, 65535, 65535, 65535>>

-----------------------------------------------------------------------------
(* Option<T> and StdResult<T>. *)
None == <<>>
Some(x) == <<x>>
IsSome(o) == Len(o) = 1

Ok(v) == [ok |-> TRUE, val |-> v]
Err(kind, msg) == [ok |-> FALSE, err |-> [kind |-> kind, msg |-> msg]]

-----------------------------------------------------------------------------
(* Uint256: 256 bits held as little-endian limbs. *)
LimbBase == 2^16
NumLimbs == 256 \div 16

DigitChars == <<"0", "1", "2", "3", "4", "5", "6", "7", "8", "9">>
IsDigit(c) == \E d \in 1..10 : DigitChars[d] = c
DigitOf(c) == (CHOOSE d \in 1..10 : DigitChars[d] = c) - 1

Uint256_zero == [i \in 1..NumLimbs |-> 0]

\* u * m + c on limbs; the carry out of the top limb is the overflow.
RECURSIVE mul_add(_, _, _)
mul_add(u, m, c) ==
    IF u = <<>> THEN [limbs |-> <<>>, carry |-> c]
    ELSE LET t == Head(u) * m + c
             r == mul_add(Tail(u), m, t \div LimbBase)
         IN [limbs |-> <<t % LimbBase>> \o r.limbs, carry |-> r.carry]

\* A slip: the carry out of the top limb dropped, the value wrapping at 2^256.
checked_mul_add_wrapping(u, d) == Some(mul_add(u, 10, d).limbs)

\* Checked multiply-by-ten-and-add: Some(limbs), or None on overflow of 256 bits.
checked_mul_add(u, d) ==
    LET r == mul_add(u, 10, d)
    IN IF r.carry = 0 THEN Some(r.limbs) ELSE None

\* One step of the radix-10 parse: the digit c is appended to the value acc.
\* The character must be a digit and the step must not overflow.
from_str_radix_step(acc, c) ==
    IF ~IsDigit(c) THEN Err("generic_err", "Parsing u256: invalid digit")
    ELSE LET n == checked_mul_add(acc, DigitOf(c))
         IN IF IsSome(n) THEN Ok(n[1])
            ELSE Err("generic_err", "Parsing u256: overflow")

\* The parse of characters lo..hi of s, left to right, from the result st of
\* the characters before them; the first failure ends it.  (The range is
\* halved so that the evaluation stays shallow; the steps and their order are
\* those of the loop.)
RECURSIVE from_str_radix(_, _, _, _)
from_str_radix(s, lo, hi, st) ==
    IF ~st.ok THEN st
    ELSE IF lo = hi THEN from_str_radix_step(st.val, s[lo])
    ELSE LET mid == (lo + hi) \div 2
             left == from_str_radix(s, lo, mid, st)
         IN from_str_radix(s, mid + 1, hi, left)

\* Uint256::from_str
Uint256_from_str(s) ==
    IF s = <<>> THEN Err("generic_err", "Parsing u256: received empty string")
    ELSE from_str_radix(s, 1, Len(s), Ok(Uint256_zero))

\* u divided by ten, most significant limb first: quotient limbs 1..i and remainder.
RECURSIVE div_rem(_, _, _)
div_rem(u, i, r) ==
    IF i = 0 THEN [q |-> <<>>, r |-> r]
    ELSE LET t == r * LimbBase + u[i]
             rest == div_rem(u, i - 1, t % 10)
         IN [q |-> Append(rest.q, t \div 10), r |-> rest.r]

\* One step of the decimal formatting: the lowest digit of st.u moves to the
\* front of st.digits; nothing is left to do once st.u is zero.
to_digits_step(st) ==
    IF st.u = Uint256_zero THEN st
    ELSE LET d == div_rem(st.u, Len(st.u), 0)
         IN [u |-> d.q, digits |-> <<DigitChars[d.r + 1]>> \o st.digits]

\* n steps of the formatting (halved, as the parse is).
RECURSIVE to_digits(_, _)
to_digits(st, n) ==
    IF st.u = Uint256_zero \/ n = 0 THEN st
    ELSE IF n = 1 THEN to_digits_step(st)
    ELSE LET first == to_digits(st, n \div 2)
         IN to_digits(first, n - n \div 2)

\* The number of decimal digits 256 bits can take (78).
DecimalDigits == (256 * 30103) \div 100000 + 1

\* Uint256's Display: decimal, no leading zeros, "0" for zero.
Uint256_to_string(u) ==
    IF u = Uint256_zero THEN <<"0">>
    ELSE to_digits([u |-> u, digits |-> <<>>], DecimalDigits).digits

-----------------------------------------------------------------------------
(* JSON documents. *)
JNull == [t |-> "null"]
JNum(n) == [t |-> "num", n |-> n]
JStr(s) == [t |-> "str", s |-> s]
JArr(a) == [t |-> "arr", a |-> a]
JObj(o) == [t |-> "obj", o |-> o]
KV(k, v) == [k |-> k, v |-> v]

-----------------------------------------------------------------------------
(* The spelling of the identifiers of the schema: variant and field names. *)
n_CreateDenom == <<"C", "r", "e", "a", "t", "e", "D", "e", "n", "o", "m">>
n_ChangeAdmin == <<"C", "h", "a", "n", "g", "e", "A", "d", "m", "i", "n">>
n_MintTokens == <<"M", "i", "n", "t", "T", "o", "k", "e", "n", "s">>
n_BurnTokens == <<"B", "u", "r", "n", "T", "o", "k", "e", "n", "s">>
n_SetMetadata == <<"S", "e", "t", "M", "e", "t", "a", "d", "a", "t", "a">>
n_ForceTransfer == <<"F", "o", "r", "c", "e", "T", "r", "a", "n", "s", "f", "e", "r">>
n_FullDenom == <<"F", "u", "l", "l", "D", "e", "n", "o", "m">>
n_Admin == <<"A", "d", "m", "i", "n">>
n_Metadata == <<"M", "e", "t", "a", "d", "a", "t", "a">>
n_DenomsByCreator == <<"D", "e", "n", "o", "m", "s", "B", "y", "C", "r", "e", "a", "t", "o", "r">>
n_Params == <<"P", "a", "r", "a", "m", "s">>
n_subdenom == <<"s", "u", "b", "d", "e", "n", "o", "m">>
n_metadata == <<"m", "e", "t", "a", "d", "a", "t", "a">>
n_denom == <<"d", "e", "n", "o", "m">>
n_new_admin_address == <<"n", "e", "w", "_", "a", "d", "m", "i", "n", "_", "a", "d", "d", "r", "e", "s", "s">>
n_amount == <<"a", "m", "o", "u", "n", "t">>
n_mint_to_address == <<"m", "i", "n", "t", "_", "t", "o", "_", "a", "d", "d", "r", "e", "s", "s">>
n_burn_from_address == <<"b", "u", "r", "n", "_", "f", "r", "o", "m", "_", "a", "d", "d", "r", "e", "s", "s">>
n_from_address == <<"f", "r", "o", "m", "_", "a", "d", "d", "r", "e", "s", "s">>
n_to_address == <<"t", "o", "_", "a", "d", "d", "r", "e", "s", "s">>
n_creator_addr == <<"c", "r", "e", "a", "t", "o", "r", "_", "a", "d", "d", "r">>
n_creator == <<"c", "r", "e", "a", "t", "o", "r">>
n_exponent == <<"e", "x", "p", "o", "n", "e", "n", "t">>
n_aliases == <<"a", "l", "i", "a", "s", "e", "s">>
n_description == <<"d", "e", "s", "c", "r", "i", "p", "t", "i", "o", "n">>
n_denom_units == <<"d", "e", "n", "o", "m", "_", "u", "n", "i", "t", "s">>
n_base == <<"b", "a", "s", "e">>
n_display == <<"d", "i", "s", "p", "l", "a", "y">>
n_name == <<"n", "a", "m", "e">>
n_symbol == <<"s", "y", "m", "b", "o", "l">>
n_admin == <<"a", "d", "m", "i", "n">>
n_denoms == <<"d", "e", "n", "o", "m", "s">>
n_params == <<"p", "a", "r", "a", "m", "s">>
n_denom_creation_fee == <<"d", "e", "n", "o", "m", "_", "c", "r", "e", "a", "t", "i", "o", "n", "_", "f", "e", "e">>
\* Wire names that no type of the schema declares.
n_extra == <<"e", "x", "t", "r", "a">>
n_mint == <<"m", "i", "n", "t">>

UpperChars == <<"A", "B", "C", "D", "E", "F", "G", "H", "I", "J", "K", "L", "M",
                "N", "O", "P", "Q", "R", "S", "T", "U", "V", "W", "X", "Y", "Z">>
LowerChars == <<"a", "b", "c", "d", "e", "f", "g", "h", "i", "j", "k", "l", "m",
                "n", "o", "p", "q", "r", "s", "t", "u", "v", "w", "x", "y", "z">>
IsUpper(c) == \E i \in 1..26 : UpperChars[i] = c
ToLower(c) == IF IsUpper(c) THEN LowerChars[CHOOSE i \in 1..26 : UpperChars[i] = c] ELSE c

\* rename_all = "snake_case" on a variant name: every upper-case letter is
\* lowered, and all but the first are preceded by an underscore.
snake_case(name) ==
    LET ups(i) == Cardinality({k \in 2..i : IsUpper(name[k])})
        at(i) == i + ups(i)
        len == IF name = <<>> THEN 0 ELSE at(Len(name))
    IN [j \in 1..len |->
          IF \E i \in 1..Len(name) : at(i) = j
          THEN ToLower(name[CHOOSE i \in 1..Len(name) : at(i) = j])
          ELSE "_"]

-----------------------------------------------------------------------------
(* Type descriptors: what a field of the schema is declared as. *)
TString == [k |-> "String"]
TAddr == [k |-> "Addr"]
TUint256 == [k |-> "Uint256"]
TU32 == [k |-> "u32"]
TOption(t) == [k |-> "Option", of |-> t]
TVec(t) == [k |-> "Vec", of |-> t]
TStruct(n) == [k |-> "Struct", name |-> n]
TEnum(n) == [k |-> "Enum", name |-> n]

\* A field: its identifier, the identifier's spelling (its wire name), its type.
Field(name, spelling, ty) == [name |-> name, wire |-> spelling, ty |-> ty]
\* A struct variant of an enum: its identifier, its spelling, its fields.
Variant(name, spelling, fields) == [name |-> name, spelling |-> spelling, fields |-> fields]

(* The schema, declaration by declaration. *)
TokenFactoryMsg == <<
    Variant("CreateDenom", n_CreateDenom,
            <<Field("subdenom", n_subdenom, TString),
              Field("metadata", n_metadata, TOption(TStruct("DenomMetadata")))>>),
    Variant("ChangeAdmin", n_ChangeAdmin,
            <<Field("denom", n_denom, TString),
              Field("new_admin_address", n_new_admin_address, TAddr)>>),
    Variant("MintTokens", n_MintTokens,
            <<Field("denom", n_denom, TString),
              Field("amount", n_amount, TUint256),
              Field("mint_to_address", n_mint_to_address, TAddr)>>),
    Variant("BurnTokens", n_BurnTokens,
            <<Field("denom", n_denom, TString),
              Field("amount", n_amount, TUint256),
              Field("burn_from_address", n_burn_from_address, TAddr)>>),
    Variant("SetMetadata", n_SetMetadata,
            <<Field("metadata", n_metadata, TStruct("DenomMetadata"))>>),
    Variant("ForceTransfer", n_ForceTransfer,
            <<Field("denom", n_denom, TString),
              Field("from_address", n_from_address, TAddr),
              Field("to_address", n_to_address, TAddr),
              Field("amount", n_amount, TUint256)>>) >>

TokenFactoryQuery == <<
    Variant("FullDenom", n_FullDenom,
            <<Field("subdenom", n_subdenom, TString),
              Field("creator_addr", n_creator_addr, TAddr)>>),
    Variant("Admin", n_Admin, <<Field("denom", n_denom, TString)>>),
    Variant("Metadata", n_Metadata, <<Field("denom", n_denom, TString)>>),
    Variant("DenomsByCreator", n_DenomsByCreator, <<Field("creator", n_creator, TAddr)>>),
    Variant("Params", n_Params, <<>>) >>

DenomUnit == <<
    Field("denom", n_denom, TString),
    Field("exponent", n_exponent, TU32),
    Field("aliases", n_aliases, TVec(TString)) >>

DenomMetadata == <<
    Field("description", n_description, TString),
    Field("denom_units", n_denom_units, TVec(TStruct("DenomUnit"))),
    Field("base", n_base, TString),
    Field("display", n_display, TString),
    Field("name", n_name, TString),
    Field("symbol", n_symbol, TString) >>

FullDenomResponse == <<Field("denom", n_denom, TString)>>
AdminResponse == <<Field("admin", n_admin, TString)>>
MetadataResponse == <<Field("metadata", n_metadata, TOption(TStruct("DenomMetadata")))>>
DenomsByCreatorResponse == <<Field("denoms", n_denoms, TVec(TString))>>
TokenParamsResponse == <<Field("params", n_params, TStruct("TokenParams"))>>
TokenParams == <<Field("denom_creation_fee", n_denom_creation_fee, TVec(TStruct("DenomCreationFee")))>>
DenomCreationFee == <<
    Field("amount", n_amount, TUint256),
    Field("denom", n_denom, TString) >>

StructFields(name) ==
    CASE name = "DenomUnit" -> DenomUnit
      [] name = "DenomMetadata" -> DenomMetadata
      [] name = "FullDenomResponse" -> FullDenomResponse
      [] name = "AdminResponse" -> AdminResponse
      [] name = "MetadataResponse" -> MetadataResponse
      [] name = "DenomsByCreatorResponse" -> DenomsByCreatorResponse
      [] name = "TokenParamsResponse" -> TokenParamsResponse
      [] name = "TokenParams" -> TokenParams
      [] name = "DenomCreationFee" -> DenomCreationFee

EnumVariants(name) ==
    CASE name = "TokenFactoryMsg" -> TokenFactoryMsg
      [] name = "TokenFactoryQuery" -> TokenFactoryQuery

-----------------------------------------------------------------------------
(* Serialization, as cw_serde derives it. *)
RECURSIVE Serialize(_, _)

\* A struct (or the fields of a struct variant): an object with one pair per
\* declared field, in declaration order.
SerializeFields(fs, v) ==
    JObj([i \in 1..Len(fs) |-> KV(fs[i].wire, Serialize(fs[i].ty, v[fs[i].name]))])

\* A slip: the enum written without its tag.
SerializeEnum_untagged(variants, v) ==
    LET var == variants[CHOOSE i \in 1..Len(variants) : variants[i].name = v.variant]
    IN SerializeFields(var.fields, v)

\* An enum value: externally tagged, the tag being the variant's name in snake case.
SerializeEnum(variants, v) ==
    LET var == variants[CHOOSE i \in 1..Len(variants) : variants[i].name = v.variant]
    IN JObj(<<KV(snake_case(var.spelling), SerializeFields(var.fields, v))>>)

\* Uint256 is written as the string of its decimal digits.
SerializeUint256(u) == JStr(Uint256_to_string(u))

\* A slip: the empty string written as null.
SerializeString_null_if_empty(s) == IF s = <<>> THEN JNull ELSE JStr(s)

\* A String or an Addr is written as a string, the empty one included.
SerializeString(s) == JStr(s)

Serialize(ty, v) ==
    CASE ty.k \in {"String", "Addr"} -> SerializeString(v)
      [] ty.k = "Uint256" -> SerializeUint256(v)
      [] ty.k = "u32" -> JNum(v)
      [] ty.k = "Option" -> IF IsSome(v) THEN Serialize(ty.of, v[1]) ELSE JNull
      [] ty.k = "Vec" -> JArr([i \in 1..Len(v) |-> Serialize(ty.of, v[i])])
      [] ty.k = "Struct" -> SerializeFields(StructFields(ty.name), v)
      [] ty.k = "Enum" -> SerializeEnum(EnumVariants(ty.name), v)

-----------------------------------------------------------------------------
(* Deserialization, as cw_serde derives it. *)
ParseErr(msg) == Err("parse_err", msg)

RECURSIVE Deserialize(_, _)

\* A slip: a key that the type does not declare skipped.
unknown_field_ignored(key) == None

\* What a key that the type does not declare does to the decoding: cw_serde
\* puts serde's deny_unknown_fields on every type, so it fails it.
unknown_field(key) == Some(ParseErr("unknown field"))

\* A struct (or the fields of a struct variant) from an object: the pairs are
\* taken in document order; an undeclared key and a repeated key fail, then
\* the pair's value is decoded; at the end a field that got no pair fails
\* unless it is an Option, which is then None.
DeserializeFields(fs, j) ==
    IF j.t # "obj" THEN ParseErr("invalid type")
    ELSE LET o == j.o
             idx(key) == {i \in 1..Len(fs) : fs[i].wire = key}
             vals == [p \in 1..Len(o) |->
                        IF idx(o[p].k) = {} THEN None
                        ELSE Some(Deserialize(fs[CHOOSE i \in idx(o[p].k) : TRUE].ty, o[p].v))]
             problem(p) ==
                 IF idx(o[p].k) = {} THEN unknown_field(o[p].k)
                 ELSE IF \E q \in 1..(p - 1) : o[q].k = o[p].k
                      THEN Some(ParseErr("duplicate field"))
                 ELSE IF ~vals[p][1].ok THEN vals[p] ELSE None
             bad == {p \in 1..Len(o) : IsSome(problem(p))}
             first == CHOOSE p \in bad : \A q \in bad : p <= q
             present(i) == \E p \in 1..Len(o) : o[p].k = fs[i].wire
             missing == {i \in 1..Len(fs) : ~present(i) /\ fs[i].ty.k # "Option"}
             value(i) ==
                 IF present(i)
                 THEN vals[CHOOSE p \in 1..Len(o) : o[p].k = fs[i].wire][1].val
                 ELSE None
         IN IF bad # {} THEN problem(first)[1]
            ELSE IF missing # {} THEN ParseErr("missing field")
            ELSE Ok([n \in {fs[i].name : i \in 1..Len(fs)} |->
                        value(CHOOSE i \in 1..Len(fs) : fs[i].name = n)])

\* An enum value from an object with exactly one pair, whose key is a
\* variant's snake-case tag and whose value holds the variant's fields.
DeserializeEnum(variants, j) ==
    IF j.t # "obj" THEN ParseErr("invalid type")
    ELSE IF Len(j.o) # 1 THEN ParseErr("expected exactly one variant")
    ELSE LET tagged == {i \in 1..Len(variants) : snake_case(variants[i].spelling) = j.o[1].k}
         IN IF tagged = {} THEN ParseErr("unknown variant")
            ELSE LET var == variants[CHOOSE i \in tagged : TRUE]
                     r == DeserializeFields(var.fields, j.o[1].v)
                 IN IF ~r.ok THEN r
                    ELSE Ok([n \in DOMAIN r.val \cup {"variant"} |->
                               IF n = "variant" THEN var.name ELSE r.val[n]])

\* Uint256 is read from a string, by Uint256::from_str.
DeserializeUint256(j) ==
    IF j.t # "str" THEN ParseErr("invalid type")
    ELSE LET r == Uint256_from_str(j.s)
         IN IF r.ok THEN r ELSE ParseErr("invalid Uint256")

\* A Vec from an array: the elements in order, the first failure ending it.
DeserializeVec(of, j) ==
    IF j.t # "arr" THEN ParseErr("invalid type")
    ELSE LET rs == [i \in 1..Len(j.a) |-> Deserialize(of, j.a[i])]
             bad == {i \in 1..Len(j.a) : ~rs[i].ok}
         IN IF bad # {} THEN rs[CHOOSE i \in bad : \A k \in bad : i <= k]
            ELSE Ok([i \in 1..Len(j.a) |-> rs[i].val])

Deserialize(ty, j) ==
    CASE ty.k \in {"String", "Addr"} ->
            IF j.t = "str" THEN Ok(j.s) ELSE ParseErr("invalid type")
      [] ty.k = "Uint256" -> DeserializeUint256(j)
      [] ty.k = "u32" ->
            IF j.t = "num" /\ j.n >= 0 THEN Ok(j.n) ELSE ParseErr("invalid type")
      [] ty.k = "Option" ->
            IF j.t = "null" THEN Ok(None)
            ELSE LET r == Deserialize(ty.of, j)
                 IN IF r.ok THEN Ok(Some(r.val)) ELSE r
      [] ty.k = "Vec" -> DeserializeVec(ty.of, j)
      [] ty.k = "Struct" -> DeserializeFields(StructFields(ty.name), j)
      [] ty.k = "Enum" -> DeserializeEnum(EnumVariants(ty.name), j)

-----------------------------------------------------------------------------
(* The message constructors: trait CreateTokenFactoryMsg. *)

\* The caller's conversion From<TokenFactoryMsg> into its own message type
\* (for CosmosMsg<TokenFactoryMsg>: the wrapping CosmosMsg::Custom).
From_TokenFactoryMsg(msg) == [custom |-> msg]

\* A slip: the host's limit on the subdenom checked here.
token_factory_create_denom_validating(subdenom, metadata) ==
    IF Len(subdenom) > 44 THEN Err("generic_err", "subdenom too long")
    ELSE Ok(From_TokenFactoryMsg(
            [variant |-> "CreateDenom", subdenom |-> subdenom, metadata |-> metadata]))

token_factory_create_denom(subdenom, metadata) ==
    Ok(From_TokenFactoryMsg(
        [variant |-> "CreateDenom", subdenom |-> subdenom, metadata |-> metadata]))

token_factory_change_admin(denom, new_admin_address) ==
    Ok(From_TokenFactoryMsg(
        [variant |-> "ChangeAdmin", denom |-> denom,
         new_admin_address |-> new_admin_address]))

token_factory_mint_tokens(denom, amount, mint_to_address) ==
    Ok(From_TokenFactoryMsg(
        [variant |-> "MintTokens", denom |-> denom, amount |-> amount,
         mint_to_address |-> mint_to_address]))

token_factory_burn_tokens(denom, amount, burn_from_address) ==
    Ok(From_TokenFactoryMsg(
        [variant |-> "BurnTokens", denom |-> denom, amount |-> amount,
         burn_from_address |-> burn_from_address]))

token_factory_set_metadata(metadata) ==
    Ok(From_TokenFactoryMsg([variant |-> "SetMetadata", metadata |-> metadata]))

\* A slip: the two addresses in each other's field.
token_factory_force_transfer_swapped(denom, from_address, to_address, amount) ==
    Ok(From_TokenFactoryMsg(
        [variant |-> "ForceTransfer", denom |-> denom, from_address |-> to_address,
         to_address |-> from_address, amount |-> amount]))

token_factory_force_transfer(denom, from_address, to_address, amount) ==
    Ok(From_TokenFactoryMsg(
        [variant |-> "ForceTransfer", denom |-> denom, from_address |-> from_address,
         to_address |-> to_address, amount |-> amount]))

-----------------------------------------------------------------------------
(* The query helpers: impl TokenFactoryQuerier for QuerierWrapper. *)

\* The caller's conversion From<TokenFactoryQuery> into its custom query type T.
From_TokenFactoryQuery(query) == [token_factory |-> query]
\* QueryRequest<T>'s From<T>: QueryRequest::Custom.
QueryRequest_Custom(custom_query) == [custom |-> custom_query]

\* self.query::<U>(&request): one exchange with the host.  self stands for
\* what the host does with the request: a system error, a contract error, or
\* a JSON document, which is then decoded as U.  The value tells what was
\* handed to the host (sent), what the transport returned (got), and what
\* the caller gets (ret).
QuerierWrapper_query(self, U, request) ==
    LET res == CASE self.kind = "system_err" -> Err("generic_err", "Querier system error")
                 [] self.kind = "contract_err" -> Err("generic_err", "Querier contract error")
                 [] self.kind = "ok" -> Deserialize(TStruct(U), self.data)
    IN [sent |-> <<request>>, got |-> <<res>>, ret |-> res]

query_token_factory_full_denom(self, subdenom, creator_addr) ==
    LET custom_query == From_TokenFactoryQuery(
            [variant |-> "FullDenom", subdenom |-> subdenom, creator_addr |-> creator_addr])
    IN QuerierWrapper_query(self, "FullDenomResponse", QueryRequest_Custom(custom_query))

\* A slip: a failed query made once more.
query_token_factory_admin_retrying(self, denom) ==
    LET custom_query == From_TokenFactoryQuery([variant |-> "Admin", denom |-> denom])
        r == QuerierWrapper_query(self, "AdminResponse", QueryRequest_Custom(custom_query))
    IN IF r.ret.ok THEN r
       ELSE [sent |-> r.sent \o r.sent, got |-> r.got \o r.got, ret |-> r.ret]

query_token_factory_admin(self, denom) ==
    LET custom_query == From_TokenFactoryQuery([variant |-> "Admin", denom |-> denom])
    IN QuerierWrapper_query(self, "AdminResponse", QueryRequest_Custom(custom_query))

\* A slip: the admin query sent for the metadata.
query_token_factory_metadata_as_admin(self, denom) ==
    LET custom_query == From_TokenFactoryQuery([variant |-> "Admin", denom |-> denom])
    IN QuerierWrapper_query(self, "MetadataResponse", QueryRequest_Custom(custom_query))

query_token_factory_metadata(self, denom) ==
    LET custom_query == From_TokenFactoryQuery([variant |-> "Metadata", denom |-> denom])
    IN QuerierWrapper_query(self, "MetadataResponse", QueryRequest_Custom(custom_query))

\* A slip: a failure turned into the empty list.
query_token_factory_denoms_by_creator_or_default(self, creator) ==
    LET custom_query == From_TokenFactoryQuery(
            [variant |-> "DenomsByCreator", creator |-> creator])
        r == QuerierWrapper_query(self, "DenomsByCreatorResponse",
                                  QueryRequest_Custom(custom_query))
    IN IF r.ret.ok THEN r
       ELSE [sent |-> r.sent, got |-> r.got, ret |-> Ok([denoms |-> <<>>])]

query_token_factory_denoms_by_creator(self, creator) ==
    LET custom_query == From_TokenFactoryQuery(
            [variant |-> "DenomsByCreator", creator |-> creator])
    IN QuerierWrapper_query(self, "DenomsByCreatorResponse", QueryRequest_Custom(custom_query))

query_token_factory_params(self) ==
    LET custom_query == From_TokenFactoryQuery([variant |-> "Params"])
    IN QuerierWrapper_query(self, "TokenParamsResponse", QueryRequest_Custom(custom_query))

-----------------------------------------------------------------------------
(* Inputs. *)
MaxRequests == 2

unit_uatom == [denom |-> s_uatom, exponent |-> 0, aliases |-> <<>>]
unit_atom == [denom |-> s_atom, exponent |-> 6, aliases |-> <<s_foo>>]
\* Metadata whose base is the unit of exponent 0.
meta_good ==
    [description |-> s_foo, denom_units |-> <<unit_uatom, unit_atom>>, base |-> s_uatom,
     display |-> s_atom, name |-> s_atom, symbol |-> s_atom]
\* Metadata with no unit of exponent 0, which the host rejects.
meta_no_base ==
    [description |-> s_empty, denom_units |-> <<unit_atom>>, base |-> s_uatom,
     display |-> s_atom, name |-> s_atom, symbol |-> s_empty]

Subdenoms == {s_foo, s_long, s_badchars}
QuerySubdenoms == {s_foo, s_long}
Denoms == {s_empty, s_denom}
Addrs == {s_empty, s_recvAddr1}
Creators == {s_contractAddr1, s_recvAddr1}
Amounts == {u_zero, u_1e24}
Metadatas == {meta_good, meta_no_base}
OptMetadatas == {None} \cup {Some(m) : m \in Metadatas}

\* Responses the host may give, as values of the response types.
Responses == [
    FullDenomResponse |-> {[denom |-> s_denom]},
    AdminResponse |-> {[admin |-> s_empty], [admin |-> s_contractAddr1]},
    MetadataResponse |-> {[metadata |-> None], [metadata |-> Some(meta_good)]},
    DenomsByCreatorResponse |-> {[denoms |-> <<>>], [denoms |-> <<s_denom, s_foo>>]},
    TokenParamsResponse |->
        {[params |-> [denom_creation_fee |-> <<>>]],
         [params |-> [denom_creation_fee |-> <<[amount |-> u_1e24, denom |-> s_uatom]>>]]} ]

\* A document that is a response of another type than U.
ForeignDoc(U) ==
    IF U = "AdminResponse"
    THEN Serialize(TStruct("FullDenomResponse"), [denom |-> s_denom])
    ELSE Serialize(TStruct("AdminResponse"), [admin |-> s_contractAddr1])

\* What the host may do with a request whose response type is U: fail in the
\* transport, fail in the module, or answer with a document: a response of
\* type U, a response of another type, or the empty object.
Hosts(U) ==
    {[kind |-> "system_err"], [kind |-> "contract_err"]}
    \cup {[kind |-> "ok", data |-> d] :
            d \in {Serialize(TStruct(U), r) : r \in Responses[U]}
                  \cup {ForeignDoc(U), JObj(<<>>)}}
NoHost == [kind |-> "none"]

-----------------------------------------------------------------------------
(* The calls a contract makes, one action per helper. *)

\* The call c, made against host, has come back with out = [sent, got, ret].
Returned(c, out) ==
    /\ call' = Some(c)
    /\ xchg' = [sent |-> out.sent, got |-> out.got]
    /\ ret' = Some(out.ret)
    /\ nreq' = nreq + Len(out.sent)
    /\ seen' = IF IsSome(probe) /\ ~IsSome(seen) /\ probe[1].fn = c.fn /\ probe[1] = c
               THEN Some([sent |-> out.sent, ret |-> out.ret])
               ELSE seen
    /\ UNCHANGED <<probe, subject, wire, decoded, rewire>>

\* A constructor hands nothing to the host.
Constructed(r) == [sent |-> <<>>, got |-> <<>>, ret |-> r]

CreateDenom ==
    /\ \E subdenom \in Subdenoms, metadata \in OptMetadatas :
           Returned([fn |-> "token_factory_create_denom",
                     args |-> [subdenom |-> subdenom, metadata |-> metadata], host |-> NoHost],
                    Constructed(token_factory_create_denom(subdenom, metadata)))

ChangeAdmin ==
    /\ \E denom \in Denoms, new_admin_address \in Addrs :
           Returned([fn |-> "token_factory_change_admin",
                     args |-> [denom |-> denom, new_admin_address |-> new_admin_address],
                     host |-> NoHost],
                    Constructed(token_factory_change_admin(denom, new_admin_address)))

MintTokens ==
    /\ \E denom \in Denoms, amount \in Amounts, mint_to_address \in Addrs :
           Returned([fn |-> "token_factory_mint_tokens",
                     args |-> [denom |-> denom, amount |-> amount,
                               mint_to_address |-> mint_to_address],
                     host |-> NoHost],
                    Constructed(token_factory_mint_tokens(denom, amount, mint_to_address)))

BurnTokens ==
    /\ \E denom \in Denoms, amount \in Amounts, burn_from_address \in Addrs :
           Returned([fn |-> "token_factory_burn_tokens",
                     args |-> [denom |-> denom, amount |-> amount,
                               burn_from_address |-> burn_from_address],
                     host |-> NoHost],
                    Constructed(token_factory_burn_tokens(denom, amount, burn_from_address)))

SetMetadata ==
    /\ \E metadata \in Metadatas :
           Returned([fn |-> "token_factory_set_metadata",
                     args |-> [metadata |-> metadata], host |-> NoHost],
                    Constructed(token_factory_set_metadata(metadata)))

ForceTransfer ==
    /\ \E denom \in Denoms, from_address \in Addrs, to_address \in Addrs, amount \in Amounts :
           Returned([fn |-> "token_factory_force_transfer",
                     args |-> [denom |-> denom, from_address |-> from_address,
                               to_address |-> to_address, amount |-> amount],
                     host |-> NoHost],
                    Constructed(token_factory_force_transfer(denom, from_address, to_address, amount)))

QueryFullDenom ==
    /\ nreq < MaxRequests
    /\ \E host \in Hosts("FullDenomResponse"), subdenom \in QuerySubdenoms, creator_addr \in Creators :
        Returned([fn |-> "query_token_factory_full_denom",
                  args |-> [subdenom |-> subdenom, creator_addr |-> creator_addr],
                  host |-> host],
                 query_token_factory_full_denom(host, subdenom, creator_addr))

\* A slip: the answer to the last admin query of a denom kept and returned
\* for the next one.
QueryAdmin_cached ==
    /\ nreq < MaxRequests
    /\ \E host \in Hosts("AdminResponse"), denom \in Denoms :
        LET c == [fn |-> "query_token_factory_admin", args |-> [denom |-> denom],
                  host |-> host]
            hit == /\ IsSome(call)
                   /\ call[1].fn = c.fn
                   /\ call[1].args = c.args
        IN Returned(c, IF hit THEN [sent |-> <<>>, got |-> <<>>, ret |-> ret[1]]
                       ELSE query_token_factory_admin(host, denom))

QueryAdmin ==
    /\ nreq < MaxRequests
    /\ \E host \in Hosts("AdminResponse"), denom \in Denoms :
        Returned([fn |-> "query_token_factory_admin", args |-> [denom |-> denom],
                  host |-> host],
                 query_token_factory_admin(host, denom))

QueryMetadata ==
    /\ nreq < MaxRequests
    /\ \E host \in Hosts("MetadataResponse"), denom \in Denoms :
        Returned([fn |-> "query_token_factory_metadata", args |-> [denom |-> denom],
                  host |-> host],
                 query_token_factory_metadata(host, denom))

QueryDenomsByCreator ==
    /\ nreq < MaxRequests
    /\ \E host \in Hosts("DenomsByCreatorResponse"), creator \in Creators :
        Returned([fn |-> "query_token_factory_denoms_by_creator",
                  args |-> [creator |-> creator], host |-> host],
                 query_token_factory_denoms_by_creator(host, creator))

QueryParams ==
    /\ nreq < MaxRequests
    /\ \E host \in Hosts("TokenParamsResponse") :
        Returned([fn |-> "query_token_factory_params", args |-> <<>>,
                  host |-> host],
                 query_token_factory_params(host))

NoExchange == [sent |-> <<>>, got |-> <<>>]

InitCalls ==
    /\ call = None /\ xchg = NoExchange /\ ret = None /\ nreq = 0

InitSerdeIdle ==
    /\ subject = None /\ wire = None /\ decoded = None /\ rewire = None

Init ==
    /\ InitCalls
    /\ probe = None /\ seen = None
    /\ InitSerdeIdle

Next ==
    \/ CreateDenom
    \/ ChangeAdmin
    \/ MintTokens
    \/ BurnTokens
    \/ SetMetadata
    \/ ForceTransfer
    \/ QueryFullDenom
    \/ QueryAdmin
    \/ QueryMetadata
    \/ QueryDenomsByCreator
    \/ QueryParams

Spec == Init /\ [][Next]_vars

\* One call per helper to observe across histories.
Probes ==
    {[fn |-> "token_factory_create_denom",
      args |-> [subdenom |-> s_foo, metadata |-> None], host |-> NoHost],
     [fn |-> "token_factory_change_admin",
      args |-> [denom |-> s_denom, new_admin_address |-> s_recvAddr1], host |-> NoHost],
     [fn |-> "token_factory_mint_tokens",
      args |-> [denom |-> s_denom, amount |-> u_1e24, mint_to_address |-> s_recvAddr1],
      host |-> NoHost],
     [fn |-> "token_factory_burn_tokens",
      args |-> [denom |-> s_denom, amount |-> u_1e24, burn_from_address |-> s_recvAddr1],
      host |-> NoHost],
     [fn |-> "token_factory_set_metadata", args |-> [metadata |-> meta_good], host |-> NoHost],
     [fn |-> "token_factory_force_transfer",
      args |-> [denom |-> s_denom, from_address |-> s_recvAddr1, to_address |-> s_empty,
                amount |-> u_1e24],
      host |-> NoHost]}
    \cup {[fn |-> "query_token_factory_full_denom",
           args |-> [subdenom |-> s_foo, creator_addr |-> s_contractAddr1], host |-> h] :
          h \in {[kind |-> "ok", data |-> Serialize(TStruct("FullDenomResponse"), [denom |-> s_denom])]}}
    \cup {[fn |-> "query_token_factory_admin", args |-> [denom |-> s_denom], host |-> h] :
          h \in {[kind |-> "ok", data |-> Serialize(TStruct("AdminResponse"), [admin |-> s_empty])]}}
    \cup {[fn |-> "query_token_factory_metadata", args |-> [denom |-> s_denom], host |-> h] :
          h \in {[kind |-> "system_err"]}}
    \cup {[fn |-> "query_token_factory_denoms_by_creator",
           args |-> [creator |-> s_recvAddr1], host |-> h] :
          h \in {[kind |-> "ok", data |-> JObj(<<>>)]}}
    \cup {[fn |-> "query_token_factory_params", args |-> <<>>, host |-> h] :
          h \in {[kind |-> "contract_err"]}}

InitHist ==
    /\ InitCalls
    /\ probe \in {Some(p) : p \in Probes} /\ seen = None
    /\ InitSerdeIdle

\* A new execution of the contract: nothing of the calls made so far is left.
NewExecution ==
    /\ IsSome(call)
    /\ call' = None /\ xchg' = NoExchange /\ ret' = None /\ nreq' = 0
    /\ UNCHANGED <<probe, seen, subject, wire, decoded, rewire>>

NextHist ==
    \/ Next
    \/ NewExecution

SpecHist == InitHist /\ [][NextHist]_vars

-----------------------------------------------------------------------------
(* Serialization round trips: a value is serialized and read back, or a
   document from the wire is read and written again. *)
TMsg == TEnum("TokenFactoryMsg")
TQuery == TEnum("TokenFactoryQuery")

SerdeAmounts == {u_zero, u_1e24, u_2p64, u_2p128, u_max}

MsgValues ==
    {[variant |-> "CreateDenom", subdenom |-> a, metadata |-> b] :
        a \in Subdenoms, b \in OptMetadatas}
    \cup {[variant |-> "ChangeAdmin", denom |-> a, new_admin_address |-> b] :
        a \in Denoms, b \in Addrs}
    \cup {[variant |-> "MintTokens", denom |-> a, amount |-> b, mint_to_address |-> c] :
        a \in Denoms, b \in SerdeAmounts, c \in Addrs}
    \cup {[variant |-> "BurnTokens", denom |-> a, amount |-> b, burn_from_address |-> c] :
        a \in Denoms, b \in SerdeAmounts, c \in Addrs}
    \cup {[variant |-> "SetMetadata", metadata |-> a] : a \in Metadatas}
    \cup {[variant |-> "ForceTransfer", denom |-> a, from_address |-> b, to_address |-> c,
           amount |-> d] :
        a \in {s_denom}, b \in Addrs, c \in Addrs, d \in SerdeAmounts}

QueryValues ==
    {[variant |-> "FullDenom", subdenom |-> a, creator_addr |-> b] :
        a \in Subdenoms, b \in Creators}
    \cup {[variant |-> "Admin", denom |-> a] : a \in Denoms}
    \cup {[variant |-> "Metadata", denom |-> a] : a \in Denoms}
    \cup {[variant |-> "DenomsByCreator", creator |-> a] : a \in Creators}
    \cup {[variant |-> "Params"]}

FeeValues == {[amount |-> a, denom |-> s_uatom] : a \in SerdeAmounts}

ResponseTypes == DOMAIN Responses

\* A document with the pair (key, value) added at the end of the object j.
WithPair(j, key, value) == JObj(Append(j.o, KV(key, value)))
\* The object j without its pairs of the given key.
WithoutKey(j, key) == JObj(SelectSeq(j.o, LAMBDA p : p.k # key))

\* The response documents of type U as the host writes them.
DocsOf(U) == {Serialize(TStruct(U), r) : r \in Responses[U]}

\* A fee entry whose amount is the text d.
FeeDoc(d) == JObj(<<KV(n_amount, JStr(d)), KV(n_denom, JStr(s_uatom))>>)
\* A MintTokens envelope whose amount is the JSON value a.
MintDoc(a) ==
    JObj(<<KV(snake_case(n_MintTokens),
              JObj(<<KV(n_denom, JStr(s_denom)), KV(n_amount, a),
                     KV(n_mint_to_address, JStr(s_recvAddr1))>>))>>)

\* Amount texts outside 0 .. 2^256 - 1, and a text of 7 with leading zeros.
BadAmountTexts == {d_neg1, d_2p256, d_2p256p64, s_empty, s_foo}
AmountTexts == BadAmountTexts \cup {d_zero, d_lead0, d_1e24, d_2p64, d_2p128, d_max}

\* The answers of a host that found nothing, as they are on the wire:
\* {"admin": ""}, {"metadata": null}, {"denoms": []}.
EmptyAdminDoc == JObj(<<KV(n_admin, JStr(<<>>))>>)
NoMetadataDoc == JObj(<<KV(n_metadata, JNull)>>)
NoDenomsDoc == JObj(<<KV(n_denoms, JArr(<<>>))>>)

\* Documents read from the wire, each with the type it is read as.
WireInputs ==
    {[ty |-> TStruct("AdminResponse"), doc |-> EmptyAdminDoc],
     [ty |-> TStruct("MetadataResponse"), doc |-> NoMetadataDoc],
     [ty |-> TStruct("DenomsByCreatorResponse"), doc |-> NoDenomsDoc]} \cup
    UNION {{[ty |-> TStruct(U), doc |-> d] : d \in DocsOf(U)} : U \in ResponseTypes}
    \cup UNION {{[ty |-> TStruct(U), doc |-> WithPair(d, n_extra, JStr(s_foo))] :
                    d \in DocsOf(U)} : U \in ResponseTypes}
    \cup {[ty |-> TStruct(U), doc |-> JObj(<<>>)] : U \in ResponseTypes}
    \cup {[ty |-> TStruct("DenomCreationFee"), doc |-> FeeDoc(d)] : d \in AmountTexts}
    \cup {[ty |-> TStruct("DenomCreationFee"), doc |-> WithoutKey(FeeDoc(d_zero), n_amount)],
          [ty |-> TStruct("DenomCreationFee"),
           doc |-> WithPair(FeeDoc(d_zero), n_extra, JNull)]}
    \cup {[ty |-> TMsg, doc |-> MintDoc(JStr(d))] : d \in AmountTexts}
    \cup {[ty |-> TMsg, doc |-> MintDoc(JNum(7))],
          [ty |-> TMsg, doc |-> JObj(<<KV(n_mint, JObj(<<>>))>>)]}

ValueInputs ==
    {[ty |-> TMsg, v |-> v] : v \in MsgValues}
    \cup {[ty |-> TQuery, v |-> v] : v \in QueryValues}
    \cup UNION {{[ty |-> TStruct(U), v |-> r] : r \in Responses[U]} : U \in ResponseTypes}
    \cup {[ty |-> TStruct("DenomCreationFee"), v |-> f] : f \in FeeValues}

InitSerde ==
    /\ InitCalls
    /\ probe = None /\ seen = None
    /\ decoded = None /\ rewire = None
    /\ \/ \E i \in ValueInputs : subject = Some([ty |-> i.ty, v |-> Some(i.v)]) /\ wire = None
       \/ \E i \in WireInputs : subject = Some([ty |-> i.ty, v |-> None]) /\ wire = Some(i.doc)

\* to_json: the value is written to the wire.
ToJson ==
    /\ IsSome(subject) /\ IsSome(subject[1].v) /\ ~IsSome(wire)
    /\ wire' = Some(Serialize(subject[1].ty, subject[1].v[1]))
    /\ UNCHANGED <<call, xchg, ret, nreq, probe, seen, subject, decoded, rewire>>

\* from_json: the document on the wire is read as the subject's type.
FromJson ==
    /\ IsSome(subject) /\ IsSome(wire) /\ ~IsSome(decoded)
    /\ decoded' = Some(Deserialize(subject[1].ty, wire[1]))
    /\ UNCHANGED <<call, xchg, ret, nreq, probe, seen, subject, wire, rewire>>

\* to_json of what was read.
ToJsonAgain ==
    /\ IsSome(decoded) /\ decoded[1].ok /\ ~IsSome(rewire)
    /\ rewire' = Some(Serialize(subject[1].ty, decoded[1].val))
    /\ UNCHANGED <<call, xchg, ret, nreq, probe, seen, subject, wire, decoded>>

NextSerde ==
    \/ ToJson
    \/ FromJson
    \/ ToJsonAgain

SpecSerde == InitSerde /\ [][NextSerde]_vars

-----------------------------------------------------------------------------
(* Properties. *)
CtorFns ==
    {"token_factory_create_denom", "token_factory_change_admin",
     "token_factory_mint_tokens", "token_factory_burn_tokens",
     "token_factory_set_metadata", "token_factory_force_transfer"}
QueryFns ==
    {"query_token_factory_full_denom", "query_token_factory_admin",
     "query_token_factory_metadata", "query_token_factory_denoms_by_creator",
     "query_token_factory_params"}

IsCtorCall == IsSome(call) /\ call[1].fn \in CtorFns
IsQueryCall == IsSome(call) /\ call[1].fn \in QueryFns

\* The variant each helper is named after.
VariantOf ==
    [token_factory_create_denom |-> "CreateDenom",
     token_factory_change_admin |-> "ChangeAdmin",
     token_factory_mint_tokens |-> "MintTokens",
     token_factory_burn_tokens |-> "BurnTokens",
     token_factory_set_metadata |-> "SetMetadata",
     token_factory_force_transfer |-> "ForceTransfer",
     query_token_factory_full_denom |-> "FullDenom",
     query_token_factory_admin |-> "Admin",
     query_token_factory_metadata |-> "Metadata",
     query_token_factory_denoms_by_creator |-> "DenomsByCreator",
     query_token_factory_params |-> "Params"]

\* v is the variant named after the call c, each field holding c's argument
\* of the same name, and nothing else.
IsVariantOfCall(v, c) ==
    /\ DOMAIN v = DOMAIN c.args \cup {"variant"}
    /\ v.variant = VariantOf[c.fn]
    /\ \A f \in DOMAIN c.args : v[f] = c.args[f]

\* C1: a message constructor returns the conversion of the variant it is
\* named after, every field of the variant being the argument of that name.
C1_ConstructorWrapsItsVariant ==
    IsCtorCall =>
        /\ ret[1].ok
        /\ DOMAIN ret[1].val = {"custom"}
        /\ IsVariantOfCall(ret[1].val.custom, call[1])

\* A forced transfer between two different addresses has been constructed.
C1_Witness ==
    /\ IsCtorCall
    /\ call[1].fn = "token_factory_force_transfer"
    /\ call[1].args.from_address = s_recvAddr1
    /\ call[1].args.to_address = s_empty
    /\ ret[1].val.custom.from_address = s_recvAddr1

\* The fields of the response type declared for each query.
DeclaredResponseFields ==
    [query_token_factory_full_denom |-> {"denom"},
     query_token_factory_admin |-> {"admin"},
     query_token_factory_metadata |-> {"metadata"},
     query_token_factory_denoms_by_creator |-> {"denoms"},
     query_token_factory_params |-> {"params"}]

\* C2: a query helper hands the host exactly the query variant it is named
\* after, with its arguments as fields, and when the transport succeeds it
\* returns the transport's response, which is of the declared response type.
C2_QueryHelperSendsItsVariant ==
    IsQueryCall =>
        /\ Len(xchg.sent) >= 1
        /\ \A i \in 1..Len(xchg.sent) :
              /\ DOMAIN xchg.sent[i] = {"custom"}
              /\ DOMAIN xchg.sent[i].custom = {"token_factory"}
              /\ IsVariantOfCall(xchg.sent[i].custom.token_factory, call[1])
        /\ \A i \in 1..Len(xchg.got) :
              xchg.got[i].ok =>
                 /\ ret[1] = xchg.got[i]
                 /\ DOMAIN ret[1].val = DeclaredResponseFields[call[1].fn]

\* The metadata query has come back with a denom's metadata.
C2_Witness ==
    /\ IsQueryCall
    /\ call[1].fn = "query_token_factory_metadata"
    /\ ret[1].ok
    /\ ret[1].val.metadata = Some(meta_good)

\* C3: every query-helper call hands exactly one request to the host,
\* whether it succeeds or fails, and a constructor call hands it none.
C3_OneRequestPerQuery ==
    [][/\ (call' # None /\ call'[1].fn \in QueryFns) =>
            nreq' = nreq + 1 /\ Len(xchg'.sent) = 1
       /\ (call' # None /\ call'[1].fn \in CtorFns) =>
            nreq' = nreq /\ Len(xchg'.sent) = 0]_vars

\* Two queries have been made, the second of which failed.
C3_Witness ==
    /\ IsQueryCall
    /\ nreq = 2
    /\ ~ret[1].ok

\* C4: when the transport or the decoding fails, the helper returns that
\* very failure, after the one request it made.
C4_FailurePropagates ==
    (IsQueryCall /\ \E i \in 1..Len(xchg.got) : ~xchg.got[i].ok) =>
        /\ Len(xchg.sent) = 1
        /\ Len(xchg.got) = 1
        /\ ~ret[1].ok
        /\ ret[1] = xchg.got[1]

\* The host answered the denoms query with a document of another type.
C4_Witness ==
    /\ IsQueryCall
    /\ call[1].fn = "query_token_factory_denoms_by_creator"
    /\ call[1].host.kind = "ok"
    /\ ~ret[1].ok
    /\ ret[1].err.kind = "parse_err"

\* C5: a constructor returns a success for every input, also for inputs the
\* host rejects.
C5_ConstructorsNeverFail ==
    IsCtorCall => ret[1].ok

\* A denom with a subdenom of 45 characters has been constructed.
C5_Witness ==
    /\ IsCtorCall
    /\ call[1].fn = "token_factory_create_denom"
    /\ call[1].args.subdenom = s_long
    /\ Len(call[1].args.subdenom) > 44
    /\ ret[1].ok
-----------------------------------------------------------------------------
(* Properties of the encoding. *)
FromValue == IsSome(subject) /\ IsSome(subject[1].v)
FromWire == IsSome(subject) /\ ~IsSome(subject[1].v)
IsEnumSubject == IsSome(subject) /\ subject[1].ty.k = "Enum"
IsStructSubject(U) ==
    IsSome(subject) /\ subject[1].ty.k = "Struct" /\ subject[1].ty.name = U

\* The value of the pair of the given key in the object j.
ValueAt(j, key) == j.o[CHOOSE i \in 1..Len(j.o) : j.o[i].k = key].v
HasKey(j, key) == \E i \in 1..Len(j.o) : j.o[i].k = key

\* The tag each variant is carried under.
ExpectedTag ==
    [CreateDenom |-> <<"c", "r", "e", "a", "t", "e", "_", "d", "e", "n", "o", "m">>,
     ChangeAdmin |-> <<"c", "h", "a", "n", "g", "e", "_", "a", "d", "m", "i", "n">>,
     MintTokens |-> <<"m", "i", "n", "t", "_", "t", "o", "k", "e", "n", "s">>,
     BurnTokens |-> <<"b", "u", "r", "n", "_", "t", "o", "k", "e", "n", "s">>,
     SetMetadata |-> <<"s", "e", "t", "_", "m", "e", "t", "a", "d", "a", "t", "a">>,
     ForceTransfer |-> <<"f", "o", "r", "c", "e", "_", "t", "r", "a", "n", "s", "f", "e", "r">>,
     FullDenom |-> <<"f", "u", "l", "l", "_", "d", "e", "n", "o", "m">>,
     Admin |-> <<"a", "d", "m", "i", "n">>,
     Metadata |-> <<"m", "e", "t", "a", "d", "a", "t", "a">>,
     DenomsByCreator |-> <<"d", "e", "n", "o", "m", "s", "_", "b", "y", "_", "c", "r", "e", "a", "t", "o", "r">>,
     Params |-> <<"p", "a", "r", "a", "m", "s">>]

\* FullDenom{subdenom: "foo", creator_addr: "contractAddr1"} and its envelope.
FullDenomExample ==
    [variant |-> "FullDenom", subdenom |-> s_foo, creator_addr |-> s_contractAddr1]
FullDenomExampleDoc ==
    JObj(<<KV(<<"f", "u", "l", "l", "_", "d", "e", "n", "o", "m">>,
              JObj(<<KV(n_subdenom, JStr(s_foo)),
                     KV(n_creator_addr, JStr(s_contractAddr1))>>))>>)

\* The values of each enum, each with its envelope.
MsgEnvelopes == {[v |-> v, doc |-> Serialize(TMsg, v)] : v \in MsgValues}
QueryEnvelopes == {[v |-> v, doc |-> Serialize(TQuery, v)] : v \in QueryValues}
Envelopes(ty) == IF ty.name = "TokenFactoryMsg" THEN MsgEnvelopes ELSE QueryEnvelopes

\* C6: a message or a query that is serialized and read back is the value it
\* was; its envelope is one object tagged with the variant's name; and no
\* other value of the schema has the same envelope.
C6_RoundTrip ==
    (FromValue /\ IsEnumSubject) =>
        LET ty == subject[1].ty
            v == subject[1].v[1]
        IN /\ IsSome(wire) =>
                /\ wire[1].t = "obj"
                /\ Len(wire[1].o) = 1
                /\ wire[1].o[1].k = ExpectedTag[v.variant]
                /\ v = FullDenomExample => wire[1] = FullDenomExampleDoc
                /\ \A e \in Envelopes(ty) : e.doc = wire[1] => e.v = v
           /\ IsSome(decoded) => decoded[1] = Ok(v)

\* The example query has been serialized and read back.
C6_Witness ==
    /\ FromValue /\ IsEnumSubject
    /\ subject[1].v[1] = FullDenomExample
    /\ IsSome(decoded)
    /\ decoded[1].ok

\* The keys each response type declares, and those of them it requires.
DeclaredKeys ==
    [FullDenomResponse |-> {n_denom},
     AdminResponse |-> {n_admin},
     MetadataResponse |-> {n_metadata},
     DenomsByCreatorResponse |-> {n_denoms},
     TokenParamsResponse |-> {n_params}]
RequiredKeys ==
    [FullDenomResponse |-> {n_denom},
     AdminResponse |-> {n_admin},
     MetadataResponse |-> {},
     DenomsByCreatorResponse |-> {n_denoms},
     TokenParamsResponse |-> {n_params}]

IsResponseSubject ==
    IsSome(subject) /\ subject[1].ty.k = "Struct" /\ subject[1].ty.name \in ResponseTypes

\* The document on the wire is the response r of type U with one more pair,
\* of a key U does not declare.
IsWithUndeclared(U, r) ==
    /\ wire[1].t = "obj"
    /\ Len(wire[1].o) = Len(Serialize(TStruct(U), r).o) + 1
    /\ SubSeq(wire[1].o, 1, Len(wire[1].o) - 1) = Serialize(TStruct(U), r).o
    /\ wire[1].o[Len(wire[1].o)].k \notin DeclaredKeys[U]

\* The document on the wire lacks a key that U requires.
LacksRequired(U) ==
    /\ wire[1].t = "obj"
    /\ \E key \in RequiredKeys[U] : ~HasKey(wire[1], key)

\* C7 as the specification has it: a key the response type does not declare is
\* ignored, the declared fields being decoded, and a missing required key
\* fails the decoding.
C7_UndeclaredIgnored ==
    (FromWire /\ IsResponseSubject /\ IsSome(decoded)) =>
        LET U == subject[1].ty.name
        IN /\ \A r \in Responses[U] : IsWithUndeclared(U, r) => decoded[1] = Ok(r)
           /\ LacksRequired(U) => ~decoded[1].ok

\* C7 as the code has it: a key the response type does not declare fails the
\* decoding, as a missing required key does; with every declared key absent,
\* MetadataResponse, which requires none, decodes as holding no metadata.
C7_UndeclaredDenied ==
    (FromWire /\ IsResponseSubject /\ IsSome(decoded)) =>
        LET U == subject[1].ty.name
        IN /\ \A r \in Responses[U] :
                 IsWithUndeclared(U, r) => decoded[1] = ParseErr("unknown field")
           /\ LacksRequired(U) => decoded[1] = ParseErr("missing field")
           /\ (U = "MetadataResponse" /\ wire[1] = JObj(<<>>)) =>
                 decoded[1] = Ok([metadata |-> None])

\* An admin response with one more key than declared has been decoded.
C7_Witness ==
    /\ FromWire /\ IsStructSubject("AdminResponse") /\ IsSome(decoded)
    /\ IsWithUndeclared("AdminResponse", [admin |-> s_contractAddr1])

\* The value each nothing-found document stands for.
NothingFound ==
    {[U |-> "AdminResponse", doc |-> EmptyAdminDoc, v |-> [admin |-> <<>>]],
     [U |-> "MetadataResponse", doc |-> NoMetadataDoc, v |-> [metadata |-> None]],
     [U |-> "DenomsByCreatorResponse", doc |-> NoDenomsDoc, v |-> [denoms |-> <<>>]]}

\* C8: the nothing-found answers decode without error, to a value that is not
\* the value of any other response of the type, and are written again as they
\* were: the empty admin stays the empty string; and the nothing-found values
\* are written as these documents.
C8_NothingFoundIsSuccess ==
    \A n \in NothingFound :
        IsStructSubject(n.U) =>
            /\ (FromWire /\ wire[1] = n.doc /\ IsSome(decoded)) =>
                  /\ decoded[1] = Ok(n.v)
                  /\ \A r \in Responses[n.U] \ {n.v} :
                        Deserialize(TStruct(n.U), Serialize(TStruct(n.U), r)) # decoded[1]
                  /\ IsSome(rewire) => rewire[1] = n.doc
            /\ (FromValue /\ subject[1].v[1] = n.v /\ IsSome(wire)) => wire[1] = n.doc

\* The answer {"admin": ""} has been decoded and written again.
C8_Witness ==
    /\ FromWire /\ IsStructSubject("AdminResponse")
    /\ wire[1] = EmptyAdminDoc
    /\ IsSome(rewire)
    /\ ValueAt(rewire[1], n_admin) = JStr(<<>>)

\* The decimal text of each amount.
AmountText ==
    {[u |-> u_zero, d |-> d_zero], [u |-> u_1e24, d |-> d_1e24],
     [u |-> u_2p64, d |-> d_2p64], [u |-> u_2p128, d |-> d_2p128],
     [u |-> u_max, d |-> d_max]}

\* The object that holds the amount: the envelope's inner object for a
\* message, the document itself for a fee.
AmountHolder(j) == IF subject[1].ty.k = "Enum" THEN j.o[1].v ELSE j
HasAmount ==
    /\ IsSome(subject)
    /\ \/ subject[1].ty.k = "Enum" /\ subject[1].ty.name = "TokenFactoryMsg"
       \/ IsStructSubject("DenomCreationFee")
    /\ IF FromValue THEN "amount" \in DOMAIN subject[1].v[1]
       ELSE /\ wire[1].t = "obj"
            /\ Len(wire[1].o) >= 1
            /\ AmountHolder(wire[1]).t = "obj"
            /\ HasKey(AmountHolder(wire[1]), n_amount)

\* C9: an amount is any of 0 .. 2^256 - 1: it is written as its exact decimal
\* text and read back as itself, the text of 2^64, 2^128 and 2^256 - 1 is read
\* as that value, and the text of a negative number or of 2^256 or more is
\* rejected.
C9_AmountIs256Bits ==
    HasAmount =>
        /\ FromValue =>
              LET v == subject[1].v[1]
              IN /\ IsSome(wire) =>
                      \E a \in AmountText :
                          /\ a.u = v.amount
                          /\ ValueAt(AmountHolder(wire[1]), n_amount) = JStr(a.d)
                 /\ IsSome(decoded) => decoded[1].ok /\ decoded[1].val.amount = v.amount
        /\ (FromWire /\ IsSome(decoded)) =>
              /\ \A t \in AmountText :
                    wire[1] \in {FeeDoc(t.d), MintDoc(JStr(t.d))} =>
                        decoded[1].ok /\ decoded[1].val.amount = t.u
              /\ \A d \in {d_neg1, d_2p256, d_2p256p64} :
                    wire[1] \in {FeeDoc(d), MintDoc(JStr(d))} =>
                        decoded[1] = ParseErr("invalid Uint256")

\* MintTokens of 10^24 has been serialized and read back.
C9_Witness ==
    /\ FromValue /\ IsEnumSubject
    /\ subject[1].v[1] =
          [variant |-> "MintTokens", denom |-> s_denom, amount |-> u_1e24,
           mint_to_address |-> s_recvAddr1]
    /\ IsSome(decoded)
    /\ IsSome(wire)
    /\ ValueAt(wire[1].o[1].v, n_amount) = JStr(d_1e24)

-----------------------------------------------------------------------------
(* Property of the histories. *)

====
